---- MODULE Spec2Model ----
(***************************************************************************)
(* create_watchdog_model.py: a script run inside a 3D modelling host.  It  *)
(* clears the scene, builds a head mesh from a sphere, adds one shape key  *)
(* per blendshape name, adds an armature with one root bone, parents the   *)
(* head to it and re-centres the head's origin.                            *)
(*                                                                         *)
(* The host session (scene objects, selection, active object, mode) is the *)
(* state.  Every statement of the script that touches the host is one      *)
(* action, named after its source line(s); pc is the line to run next.     *)
(* A host operator raises when its context precondition (its poll) fails;  *)
(* an exception is not caught anywhere in the script, so it ends the call. *)
(*                                                                         *)
(* Lengths are integers in thousandths of a scene unit.  The UV sphere is  *)
(* represented by its six axis-extreme vertices and the twelve edges       *)
(* between them; subdivide adds one vertex per edge.                       *)
(***************************************************************************)
EXTENDS Integers, Sequences, FiniteSets

\* ---------------------------------------------------------------- bounds
\* calls (main() or add_blendshape_keys(obj)) started in one session
MaxRuns == 2
\* host calls of main() that fail for a reason outside the modelled context
MaxFaults == 1

\* ------------------------------------------------------ program constants
BLENDSHAPE_NAMES == <<
    "browDownLeft", "browDownRight", "browInnerUp", "browOuterUpLeft", "browOuterUpRight",
    "cheekPuff", "cheekSquintLeft", "cheekSquintRight",
    "eyeBlinkLeft", "eyeBlinkRight",
    "eyeLookDownLeft", "eyeLookDownRight", "eyeLookInLeft", "eyeLookInRight",
    "eyeLookOutLeft", "eyeLookOutRight", "eyeLookUpLeft", "eyeLookUpRight",
    "eyeSquintLeft", "eyeSquintRight", "eyeWideLeft", "eyeWideRight",
    "jawForward", "jawLeft", "jawOpen", "jawRight",
    "mouthClose", "mouthDimpleLeft", "mouthDimpleRight",
    "mouthFrownLeft", "mouthFrownRight", "mouthFunnel", "mouthLeft",
    "mouthLowerDownLeft", "mouthLowerDownRight", "mouthPressLeft", "mouthPressRight",
    "mouthPucker", "mouthRight", "mouthRollLower", "mouthRollUpper",
    "mouthShrugLower", "mouthShrugUpper", "mouthSmileLeft", "mouthSmileRight",
    "mouthStretchLeft", "mouthStretchRight", "mouthUpperUpLeft", "mouthUpperUpRight",
    "noseSneerLeft", "noseSneerRight"
>>

EXTRA_BLENDSHAPE_NAMES == <<"tongueOut">>

\* line 13: the 52 MediaPipe names are "_neutral" (index 0) and the list above
MEDIAPIPE_NAMES == <<"_neutral">> \o BLENDSHAPE_NAMES

\* radius=1.0 of the sphere primitive
SphereRadius == 1000
\* head.scale = (1.05, 1.2, 0.95)
HeadScaleX == 1050
HeadScaleY == 1200
HeadScaleZ == 950
\* bone.tail = (0, 0, 0.2)
RootTailZ == 200
\* the count the diagnostic line states: "51 MediaPipe + tongueOut shape keys"
PrintedMediaPipeCount == 51

\* ------------------------------------------------------------- geometry
Origin == <<0, 0, 0>>
Unit == <<1000, 1000, 1000>>
VAdd(a, b) == <<a[1] + b[1], a[2] + b[2], a[3] + b[3]>>
VSub(a, b) == <<a[1] - b[1], a[2] - b[2], a[3] - b[3]>>
VScale(a, s) == <<(a[1] * s[1]) \div 1000, (a[2] * s[2]) \div 1000, (a[3] * s[3]) \div 1000>>
VMid(a, b) == <<(a[1] + b[1]) \div 2, (a[2] + b[2]) \div 2, (a[3] + b[3]) \div 2>>

SeqRange(s) == {s[i] : i \in 1..Len(s)}
MinOf(S) == CHOOSE x \in S : \A y \in S : x <= y
MaxOf(S) == CHOOSE x \in S : \A y \in S : x >= y

\* centre of the bounding box of a non-empty vertex list (center="BOUNDS")
BoundsCenter(verts) ==
    [a \in 1..3 |->
        (MinOf({verts[i][a] : i \in 1..Len(verts)})
         + MaxOf({verts[i][a] : i \in 1..Len(verts)})) \div 2]

SphereVerts ==
    << <<SphereRadius, 0, 0>>, <<0 - SphereRadius, 0, 0>>,
       <<0, SphereRadius, 0>>, <<0, 0 - SphereRadius, 0>>,
       <<0, 0, SphereRadius>>, <<0, 0, 0 - SphereRadius>> >>
SphereEdges ==
    << <<1, 3>>, <<1, 4>>, <<1, 5>>, <<1, 6>>, <<2, 3>>, <<2, 4>>,
       <<2, 5>>, <<2, 6>>, <<3, 5>>, <<3, 6>>, <<4, 5>>, <<4, 6>> >>

\* mesh.subdivide(number_cuts=1): every edge gets a vertex at its midpoint
SubdivideVerts(verts, edges) ==
    verts \o [e \in 1..Len(edges) |-> VMid(verts[edges[e][1]], verts[edges[e][2]])]
SubdivideEdges(verts, edges) ==
    [k \in 1..(2 * Len(edges)) |->
        LET e == (k + 1) \div 2
            m == Len(verts) + e
        IN  IF k % 2 = 1 THEN <<edges[e][1], m>> ELSE <<m, edges[e][2]>>]

\* ---------------------------------------------------------- host objects
Name(base, n) == [base |-> base, n |-> n]

Object(name, type, location, verts, edges, keys, bones) ==
    [name |-> name, type |-> type, hidden |-> FALSE, selected |-> FALSE,
     parent |-> 0, location |-> location, scale |-> Unit,
     verts |-> verts, edges |-> edges, keys |-> keys,
     bones |-> bones, edit_bones |-> <<>>]

ShapeKey(name, data) == [name |-> name, data |-> data]
Bone(name, head, tail) == [name |-> name, head |-> head, tail |-> tail]

KeyNames(o) == [i \in 1..Len(o.keys) |-> o.keys[i].name]
HasKey(o, name) == \E i \in 1..Len(o.keys) : o.keys[i].name = name
KeyIndex(o, name) == CHOOSE i \in 1..Len(o.keys) : o.keys[i].name = name

\* the smallest identity no object of the session holds
FreeId(os) ==
    CHOOSE i \in 1..(Cardinality(DOMAIN os) + 1) :
        i \notin DOMAIN os /\ \A j \in 1..(i - 1) : j \in DOMAIN os

\* the host keeps object names unique: base, base.001, base.002, ...
UniqueName(os, self, base) ==
    LET used == {os[i].name.n : i \in {j \in DOMAIN os \ {self} : os[j].name.base = base}}
    IN  Name(base, CHOOSE n \in 0..Cardinality(DOMAIN os) :
                       n \notin used /\ \A m \in 0..(n - 1) : m \in used)

\* object.select_all(action): hidden objects are not selectable
SelectAll(os, action) ==
    [i \in DOMAIN os |-> [os[i] EXCEPT !.selected = (action = "SELECT") /\ ~os[i].hidden]]

\* variant: the script deselects where it should select
SelectSetFalse(os, id) == [os EXCEPT ![id].selected = FALSE]

\* obj.select_set(True)
SelectSet(os, id) == [os EXCEPT ![id].selected = ~os[id].hidden]

\* object.delete(use_global=False): removes the selected objects
DeleteSelected(os) ==
    LET keep == {i \in DOMAIN os : ~os[i].selected}
    IN  [i \in keep |-> [os[i] EXCEPT !.parent = IF @ \in keep THEN @ ELSE 0]]

\* a primitive/armature add: the new object is the only selected one
AddObject(os, id, rec) ==
    [i \in DOMAIN os \cup {id} |->
        IF i = id THEN [rec EXCEPT !.selected = TRUE]
        ELSE [os[i] EXCEPT !.selected = FALSE]]

\* mesh.primitive_uv_sphere_add(radius=1.0): placed at the 3D cursor
SphereAdd(os, at) ==
    AddObject(os, FreeId(os),
              Object(UniqueName(os, 0, "Sphere"), "MESH", at,
                     SphereVerts, SphereEdges, <<>>, <<>>))

\* object.armature_add(location=(0, 0, 0)): one bone "Bone" of unit length
ArmatureAdd(os) ==
    AddObject(os, FreeId(os),
              Object(UniqueName(os, 0, "Armature"), "ARMATURE", Origin,
                     <<>>, <<>>, <<>>,
                     <<Bone("Bone", Origin, <<0, 0, 1000>>)>>))

\* object.transform_apply(): location, rotation and scale default to True,
\* so the selected objects' location and scale are baked into their data
TransformApplyObject(o) ==
    LET bake(v) == VAdd(VScale(v, o.scale), o.location)
    IN  [o EXCEPT !.verts = [i \in 1..Len(o.verts) |-> bake(o.verts[i])],
                  !.keys = [k \in 1..Len(o.keys) |->
                              [o.keys[k] EXCEPT !.data =
                                 [i \in 1..Len(o.keys[k].data) |-> bake(o.keys[k].data[i])]]],
                  !.location = Origin,
                  !.scale = Unit]
TransformApply(os) ==
    [i \in DOMAIN os |-> IF os[i].selected THEN TransformApplyObject(os[i]) ELSE os[i]]

\* variant: leaving edit mode discards the edited bones
ModeSetObjectNoWriteBack(o, m) ==
    IF o.type # "ARMATURE" THEN o
    ELSE IF m = "EDIT" THEN [o EXCEPT !.edit_bones = o.bones]
    ELSE [o EXCEPT !.edit_bones = <<>>]

\* object.mode_set(mode): an armature's bones are edited as edit_bones
ModeSetObject(o, m) ==
    IF o.type # "ARMATURE" THEN o
    ELSE IF m = "EDIT" THEN [o EXCEPT !.edit_bones = o.bones]
    ELSE IF o.edit_bones # <<>> THEN [o EXCEPT !.bones = o.edit_bones, !.edit_bones = <<>>]
    ELSE o
ModeSetPoll(os, act, m) ==
    /\ act \in DOMAIN os
    /\ m = "EDIT" => os[act].type \in {"MESH", "ARMATURE"}

\* object.shape_key_add(from_mix=False) on the active object
ShapeKeyAdd(o) ==
    [o EXCEPT !.keys = Append(@, ShapeKey(IF o.keys = <<>> THEN "Basis" ELSE "Key", o.verts))]

\* object.parent_set(type="OBJECT"): the selected objects become children
\* of the active one
ParentSet(os, act) ==
    [i \in DOMAIN os |->
        IF os[i].selected /\ i # act THEN [os[i] EXCEPT !.parent = act] ELSE os[i]]

\* object.origin_set(type="ORIGIN_GEOMETRY", center="BOUNDS"): the data of
\* each selected mesh (shape keys included) moves by minus the centre and
\* the object by plus the centre
OriginSetObject(o) ==
    IF o.type # "MESH" \/ o.verts = <<>> THEN o
    ELSE LET c == BoundsCenter(o.verts)
         IN  [o EXCEPT !.verts = [i \in 1..Len(o.verts) |-> VSub(o.verts[i], c)],
                       !.keys = [k \in 1..Len(o.keys) |->
                                   [o.keys[k] EXCEPT !.data =
                                      [i \in 1..Len(o.keys[k].data) |-> VSub(o.keys[k].data[i], c)]]],
                       !.location = VAdd(o.location, c)]
OriginSet(os) ==
    [i \in DOMAIN os |-> IF os[i].selected THEN OriginSetObject(os[i]) ELSE os[i]]

\* variant: the new key is left without the copy of the basis
LoopBodyNoCopy(o, basisIdx, name) ==
    IF HasKey(o, name) THEN o
    ELSE [o EXCEPT !.keys = Append(@, ShapeKey(name, [i \in 1..Len(o.verts) |-> Origin]))]

\* variant: the existence check of line 106 is missing
LoopBodyNoCheck(o, basisIdx, name) ==
    [o EXCEPT !.keys =
        Append(@, ShapeKey(name, [i \in 1..Len(o.verts) |-> o.keys[basisIdx].data[i]]))]

\* variant: an existing key is reset to the basis instead of skipped
LoopBodyOverwrite(o, basisIdx, name) ==
    IF HasKey(o, name)
    THEN [o EXCEPT !.keys[KeyIndex(o, name)].data =
            [i \in 1..Len(o.verts) |-> o.keys[basisIdx].data[i]]]
    ELSE [o EXCEPT !.keys =
            Append(@, ShapeKey(name, [i \in 1..Len(o.verts) |-> o.keys[basisIdx].data[i]]))]

\* lines 106-111, one iteration of the loop over the names: a name that is
\* already a key is skipped, otherwise key_blocks.new(name, from_mix=False)
\* adds the key and every vertex gets a copy of the basis' coordinate.
\* key_blocks.new is taken to do what the comment of line 108 says it does:
\* append a key block of that name to the collection.
LoopBody(o, basisIdx, name) ==
    IF HasKey(o, name) THEN o
    ELSE [o EXCEPT !.keys =
            Append(@, ShapeKey(name, [i \in 1..Len(o.verts) |-> o.keys[basisIdx].data[i]]))]

\* lines 74-77: the bone "Bone" becomes "root" from (0,0,0) to (0,0,0.2)
EditRootBone(o) ==
    LET b == CHOOSE i \in 1..Len(o.edit_bones) : o.edit_bones[i].name = "Bone"
    IN  [o EXCEPT !.edit_bones[b] = Bone("root", Origin, <<0, 0, RootTailZ>>)]
HasEditBone(o, name) == \E i \in 1..Len(o.edit_bones) : o.edit_bones[i].name = name

\* ------------------------------------------------------------------ state
VARIABLES
    objs,         \* bpy.data.objects: identity -> object
    active,       \* view_layer.objects.active (0: none)
    mode,         \* the session's mode, "OBJECT" or "EDIT"
    cursor,       \* the 3D cursor, where primitives are placed
    pc,           \* the source line to run next; "idle" between calls
    caller,       \* "main", or "direct" for add_blendshape_keys(obj) alone
    mesh_object,  \* the argument of add_blendshape_keys
    head,         \* main's and the helpers' head / head_object
    armature,     \* add_root_bone's armature
    basis,        \* add_blendshape_keys' basis: its index in key_blocks
    idx,          \* the loop position in BLENDSHAPE_NAMES + EXTRA_BLENDSHAPE_NAMES
    result,       \* "none", "running", "returned" or "raised"
    exc,          \* the exception that ended the call
    stdout,       \* the lines printed by the call
    runs,         \* calls started
    faults,       \* host faults raised
    entryMode,    \* the mode the call started in
    prev,         \* the call before this one, and how it ended
    entryKeys,    \* the argument's shape keys when add_blendshape_keys(obj) was called
    firstNames    \* the head's shape-key names after the first complete main()

vars == <<objs, active, mode, cursor, pc, caller, mesh_object, head, armature,
          basis, idx, result, exc, stdout, runs, faults, entryMode, prev, entryKeys,
          firstNames>>
scene == <<objs, active, mode>>

\* variants of the list the loop of line 105 runs over
AllNamesNoExtra == BLENDSHAPE_NAMES
AllNamesWithNeutral == MEDIAPIPE_NAMES \o EXTRA_BLENDSHAPE_NAMES
\* line 105: BLENDSHAPE_NAMES + EXTRA_BLENDSHAPE_NAMES
AllNames == BLENDSHAPE_NAMES \o EXTRA_BLENDSHAPE_NAMES
NoExc == [kind |-> "none", at |-> "none"]

\* the default scene's mesh, reduced to two opposite corners and their edge
CubeVerts == << <<-1000, -1000, -1000>>, <<1000, 1000, 1000>> >>
CubeEdges == << <<1, 2>> >>
\* a sculpted pose of the cube: its first corner is displaced
CubeSculpted == << <<-1000, -1000, -700>>, <<1000, 1000, 1000>> >>
\* shape keys an earlier session may have left on the cube
CubeKeyVariants ==
    { <<>>,
      <<ShapeKey("Basis", CubeVerts)>>,
      <<ShapeKey("Basis", CubeVerts), ShapeKey("jawOpen", CubeSculpted),
        ShapeKey("Smile", CubeSculpted)>>,
      <<ShapeKey("Neutral", CubeVerts)>> }
Cursors == {Origin, <<500, 0, -250>>}

\* The session before the script runs: the default cube (possibly hidden,
\* possibly in edit mode, possibly carrying shape keys) and a light.
Init ==
    \E hid \in BOOLEAN, keys \in CubeKeyVariants, act \in {0, 1},
       md \in {"OBJECT", "EDIT"}, cur \in Cursors :
        /\ md = "EDIT" => act = 1
        /\ hid => act = 0 /\ keys = <<>>
        /\ objs = [i \in {1, 2} |->
                     IF i = 1
                     THEN [Object(Name("Cube", 0), "MESH", Origin, CubeVerts, CubeEdges, keys, <<>>)
                             EXCEPT !.hidden = hid]
                     ELSE Object(Name("Light", 0), "LIGHT", <<4000, 1000, 6000>>,
                                 <<>>, <<>>, <<>>, <<>>)]
        /\ active = act
        /\ mode = md
        /\ cursor = cur
        /\ pc = "idle" /\ caller = "none" /\ result = "none" /\ exc = NoExc
        /\ mesh_object = 0 /\ head = 0 /\ armature = 0 /\ basis = 0 /\ idx = 0
        /\ stdout = <<>> /\ runs = 0 /\ faults = 0
        /\ entryMode = md
        /\ prev = [fn |-> "none", arg |-> 0, result |-> "none"]
        /\ entryKeys = <<>>
        /\ firstNames = <<>>

\* ------------------------------------------------------- control helpers
Goto(l) ==
    /\ pc' = l
    /\ UNCHANGED <<cursor, caller, result, exc, stdout, runs, faults, entryMode,
                   prev, entryKeys, firstNames>>

\* variant: main() wrapped in a handler that swallows the exception and goes
\* on to the diagnostic lines
RaiseSwallowed(kind) ==
    /\ pc' = "L124"
    /\ exc' = [kind |-> kind, at |-> pc]
    /\ faults' = IF kind = "HostFault" THEN faults + 1 ELSE faults
    /\ UNCHANGED <<objs, active, mode, cursor, caller, mesh_object, head, armature,
                   basis, idx, result, stdout, runs, entryMode, prev, entryKeys, firstNames>>

\* No statement of the script catches an exception: the call ends where it
\* is raised, and what the earlier statements did to the scene stays.
Raise(kind) ==
    /\ pc' = "idle"
    /\ result' = "raised"
    /\ exc' = [kind |-> kind, at |-> pc]
    /\ faults' = IF kind = "HostFault" THEN faults + 1 ELSE faults
    /\ UNCHANGED <<objs, active, mode, cursor, caller, mesh_object, head, armature,
                   basis, idx, stdout, runs, entryMode, prev, entryKeys, firstNames>>

\* a host call may also fail for a reason the scene does not show
FaultChoices == IF caller = "main" /\ faults < MaxFaults THEN BOOLEAN ELSE {FALSE}

HostCall(fault, poll, effect) ==
    IF fault THEN Raise("HostFault")
    ELSE IF ~poll THEN Raise("RuntimeError")
    ELSE effect

Begin(fn, line, arg) ==
    /\ pc = "idle"
    /\ runs < MaxRuns
    /\ pc' = line
    /\ caller' = fn
    /\ result' = "running"
    /\ exc' = NoExc
    /\ mesh_object' = arg
    /\ head' = 0 /\ armature' = 0 /\ basis' = 0 /\ idx' = 0
    /\ stdout' = <<>>
    /\ runs' = runs + 1
    /\ entryMode' = mode
    /\ prev' = [fn |-> caller, arg |-> mesh_object, result |-> result]
    /\ entryKeys' = IF arg \in DOMAIN objs THEN objs[arg].keys ELSE <<>>
    /\ UNCHANGED <<objs, active, mode, cursor, faults, firstNames>>

\* line 130: main()
StartMain == Begin("main", "L39", 0)

\* add_blendshape_keys(obj) called on its own, on any object of the session
StartAddKeys == \E o \in DOMAIN objs : Begin("direct", "L94", o)

\* ------------------------------------------------------------ clear_scene
L39 ==
    /\ pc = "L39"
    /\ \E fault \in FaultChoices :
        HostCall(fault, mode = "OBJECT",
            /\ objs' = SelectAll(objs, "SELECT")
            /\ Goto("L40")
            /\ UNCHANGED <<active, mode, mesh_object, head, armature, basis, idx>>)

L40 ==
    /\ pc = "L40"
    /\ \E fault \in FaultChoices :
        HostCall(fault, mode = "OBJECT",
            /\ objs' = DeleteSelected(objs)
            /\ active' = IF active \in DOMAIN DeleteSelected(objs) THEN active ELSE 0
            /\ Goto("L50")
            /\ UNCHANGED <<mode, mesh_object, head, armature, basis, idx>>)

\* ---------------------------------------------- create_watchdog_head_mesh
\* reached in object mode only: lines 39-40 have required it
L50 ==
    /\ pc = "L50"
    /\ \E fault \in FaultChoices :
        HostCall(fault, mode = "OBJECT",
            /\ objs' = SphereAdd(objs, cursor)
            /\ active' = FreeId(objs)
            /\ Goto("L51")
            /\ UNCHANGED <<mode, mesh_object, head, armature, basis, idx>>)

\* lines 51-54: head = active_object; head.name; head.scale
L51 ==
    /\ pc = "L51"
    /\ IF active \notin DOMAIN objs THEN Raise("AttributeError")
       ELSE /\ head' = active
            /\ objs' = [objs EXCEPT ![active].name = UniqueName(objs, active, "WatchdogHead"),
                                    ![active].scale = <<HeadScaleX, HeadScaleY, HeadScaleZ>>]
            /\ Goto("L55")
            /\ UNCHANGED <<active, mode, mesh_object, armature, basis, idx>>

L55 ==
    /\ pc = "L55"
    /\ \E fault \in FaultChoices :
        HostCall(fault, mode = "OBJECT",
            /\ objs' = TransformApply(objs)
            /\ Goto("L56")
            /\ UNCHANGED <<active, mode, mesh_object, head, armature, basis, idx>>)

L56 ==
    /\ pc = "L56"
    /\ \E fault \in FaultChoices :
        HostCall(fault, ModeSetPoll(objs, active, "EDIT"),
            /\ objs' = [objs EXCEPT ![active] = ModeSetObject(@, "EDIT")]
            /\ mode' = "EDIT"
            /\ Goto("L57")
            /\ UNCHANGED <<active, mesh_object, head, armature, basis, idx>>)

L57 ==
    /\ pc = "L57"
    /\ \E fault \in FaultChoices :
        HostCall(fault, mode = "EDIT" /\ active \in DOMAIN objs /\ objs[active].type = "MESH",
            /\ objs' = [objs EXCEPT ![active].verts = SubdivideVerts(objs[active].verts, objs[active].edges),
                                    ![active].edges = SubdivideEdges(objs[active].verts, objs[active].edges)]
            /\ Goto("L58")
            /\ UNCHANGED <<active, mode, mesh_object, head, armature, basis, idx>>)

\* line 58, then the return to main and its call add_blendshape_keys(head)
L58 ==
    /\ pc = "L58"
    /\ \E fault \in FaultChoices :
        HostCall(fault, ModeSetPoll(objs, active, "OBJECT"),
            /\ objs' = [objs EXCEPT ![active] = ModeSetObject(@, "OBJECT")]
            /\ mode' = "OBJECT"
            /\ mesh_object' = head
            /\ Goto("L94")
            /\ UNCHANGED <<active, head, armature, basis, idx>>)

\* ---------------------------------------------------- add_blendshape_keys
\* the function returns: to main (which calls add_root_bone) or to the caller
ReturnFromAddKeys ==
    /\ pc' = IF caller = "main" THEN "L68" ELSE "idle"
    /\ result' = IF caller = "main" THEN result ELSE "returned"
    /\ UNCHANGED <<objs, active, mode, cursor, caller, mesh_object, head, armature,
                   basis, idx, exc, stdout, runs, faults, entryMode, prev, entryKeys, firstNames>>

\* variant: the type check of line 94 is missing
TypeIsMeshAlways(o) == TRUE

\* lines 94-95: if mesh_object.type != "MESH": return
TypeIsMesh(o) == o.type = "MESH"

L94 ==
    /\ pc = "L94"
    /\ IF TypeIsMesh(objs[mesh_object])
       THEN Goto("L96") /\ UNCHANGED <<objs, active, mode, mesh_object, head, armature, basis, idx>>
       ELSE ReturnFromAddKeys

L96 ==
    /\ pc = "L96"
    /\ \E fault \in FaultChoices :
        HostCall(fault, mode = "OBJECT",
            /\ objs' = SelectAll(objs, "DESELECT")
            /\ Goto("L97")
            /\ UNCHANGED <<active, mode, mesh_object, head, armature, basis, idx>>)

\* lines 97-99
L97 ==
    /\ pc = "L97"
    /\ objs' = SelectSet(objs, mesh_object)
    /\ active' = mesh_object
    /\ Goto("L101")
    /\ UNCHANGED <<mode, mesh_object, head, armature, basis, idx>>

\* line 101: if not mesh.shape_keys
L101 ==
    /\ pc = "L101"
    /\ Goto(IF objs[mesh_object].keys = <<>> THEN "L102" ELSE "L103")
    /\ UNCHANGED <<objs, active, mode, mesh_object, head, armature, basis, idx>>

L102 ==
    /\ pc = "L102"
    /\ \E fault \in FaultChoices :
        HostCall(fault, active \in DOMAIN objs /\ mode # "EDIT" /\ objs[active].type = "MESH",
            /\ objs' = [objs EXCEPT ![active] = ShapeKeyAdd(@)]
            /\ Goto("L103")
            /\ UNCHANGED <<active, mode, mesh_object, head, armature, basis, idx>>)

\* line 103: basis = mesh.shape_keys.key_blocks["Basis"]
L103 ==
    /\ pc = "L103"
    /\ IF ~HasKey(objs[mesh_object], "Basis") THEN Raise("KeyError")
       ELSE /\ basis' = KeyIndex(objs[mesh_object], "Basis")
            /\ idx' = 1
            /\ Goto("L105")
            /\ UNCHANGED <<objs, active, mode, mesh_object, head, armature>>

\* lines 105-111: one iteration of the loop, or its end and the return
L105 ==
    /\ pc = "L105"
    /\ \E fault \in FaultChoices :
        IF idx > Len(AllNames) THEN ReturnFromAddKeys
        ELSE IF fault /\ ~HasKey(objs[mesh_object], AllNames[idx]) THEN Raise("HostFault")
        ELSE /\ objs' = [objs EXCEPT ![mesh_object] = LoopBody(@, basis, AllNames[idx])]
             /\ idx' = idx + 1
             /\ Goto("L105")
             /\ UNCHANGED <<active, mode, mesh_object, head, armature, basis>>

\* ---------------------------------------------------------- add_root_bone
L68 ==
    /\ pc = "L68"
    /\ \E fault \in FaultChoices :
        HostCall(fault, ModeSetPoll(objs, active, "OBJECT"),
            /\ objs' = [objs EXCEPT ![active] = ModeSetObject(@, "OBJECT")]
            /\ mode' = "OBJECT"
            /\ Goto("L69")
            /\ UNCHANGED <<active, mesh_object, head, armature, basis, idx>>)

L69 ==
    /\ pc = "L69"
    /\ \E fault \in FaultChoices :
        HostCall(fault, mode = "OBJECT",
            /\ objs' = ArmatureAdd(objs)
            /\ active' = FreeId(objs)
            /\ Goto("L70")
            /\ UNCHANGED <<mode, mesh_object, head, armature, basis, idx>>)

\* lines 70-71: armature = active_object; armature.name = "Armature"
L70 ==
    /\ pc = "L70"
    /\ IF active \notin DOMAIN objs THEN Raise("AttributeError")
       ELSE /\ armature' = active
            /\ objs' = [objs EXCEPT ![active].name = UniqueName(objs, active, "Armature")]
            /\ Goto("L73")
            /\ UNCHANGED <<active, mode, mesh_object, head, basis, idx>>

L73 ==
    /\ pc = "L73"
    /\ \E fault \in FaultChoices :
        HostCall(fault, ModeSetPoll(objs, active, "EDIT"),
            /\ objs' = [objs EXCEPT ![active] = ModeSetObject(@, "EDIT")]
            /\ mode' = "EDIT"
            /\ Goto("L74")
            /\ UNCHANGED <<active, mesh_object, head, armature, basis, idx>>)

\* lines 74-77: bone = armature.data.edit_bones["Bone"]; name, head, tail
L74 ==
    /\ pc = "L74"
    /\ IF ~HasEditBone(objs[armature], "Bone") THEN Raise("KeyError")
       ELSE /\ objs' = [objs EXCEPT ![armature] = EditRootBone(@)]
            /\ Goto("L78")
            /\ UNCHANGED <<active, mode, mesh_object, head, armature, basis, idx>>

L78 ==
    /\ pc = "L78"
    /\ \E fault \in FaultChoices :
        HostCall(fault, ModeSetPoll(objs, active, "OBJECT"),
            /\ objs' = [objs EXCEPT ![active] = ModeSetObject(@, "OBJECT")]
            /\ mode' = "OBJECT"
            /\ Goto("L81")
            /\ UNCHANGED <<active, mesh_object, head, armature, basis, idx>>)

\* lines 81-83: select the head and the armature, make the armature active
L81 ==
    /\ pc = "L81"
    /\ objs' = SelectSet(SelectSet(objs, head), armature)
    /\ active' = armature
    /\ Goto("L84")
    /\ UNCHANGED <<mode, mesh_object, head, armature, basis, idx>>

L84 ==
    /\ pc = "L84"
    /\ \E fault \in FaultChoices :
        HostCall(fault, mode = "OBJECT" /\ active \in DOMAIN objs,
            /\ objs' = ParentSet(objs, active)
            /\ Goto("L85")
            /\ UNCHANGED <<active, mode, mesh_object, head, armature, basis, idx>>)

\* line 85, then the return to main
L85 ==
    /\ pc = "L85"
    /\ \E fault \in FaultChoices :
        HostCall(fault, mode = "OBJECT",
            /\ objs' = SelectAll(objs, "DESELECT")
            /\ Goto("L120")
            /\ UNCHANGED <<active, mode, mesh_object, head, armature, basis, idx>>)

\* ------------------------------------------------------------------- main
L120 ==
    /\ pc = "L120"
    /\ \E fault \in FaultChoices :
        HostCall(fault, mode = "OBJECT",
            /\ objs' = SelectAll(objs, "DESELECT")
            /\ Goto("L121")
            /\ UNCHANGED <<active, mode, mesh_object, head, armature, basis, idx>>)

\* lines 121-122
L121 ==
    /\ pc = "L121"
    /\ objs' = SelectSet(objs, head)
    /\ active' = head
    /\ Goto("L123")
    /\ UNCHANGED <<mode, mesh_object, head, armature, basis, idx>>

L123 ==
    /\ pc = "L123"
    /\ \E fault \in FaultChoices :
        HostCall(fault, mode = "OBJECT",
            /\ objs' = OriginSet(objs)
            /\ Goto("L124")
            /\ UNCHANGED <<active, mode, mesh_object, head, armature, basis, idx>>)

\* lines 124-126: the diagnostic lines; main returns
Diagnostics == <<"Watchdog model created", "Next: Add teeth + tongue geometry", "Optionally assign texture">>

L124 ==
    /\ pc = "L124"
    /\ stdout' = stdout \o Diagnostics
    /\ pc' = "idle"
    /\ result' = "returned"
    /\ firstNames' = IF firstNames = <<>> THEN KeyNames(objs[head]) ELSE firstNames
    /\ UNCHANGED <<objs, active, mode, cursor, caller, mesh_object, head, armature,
                   basis, idx, exc, runs, faults, entryMode, prev, entryKeys>>

Next ==
    \/ StartMain \/ StartAddKeys
    \/ L39 \/ L40
    \/ L50 \/ L51 \/ L55 \/ L56 \/ L57 \/ L58
    \/ L94 \/ L96 \/ L97 \/ L101 \/ L102 \/ L103 \/ L105
    \/ L68 \/ L69 \/ L70 \/ L73 \/ L74 \/ L78 \/ L81 \/ L84 \/ L85
    \/ L120 \/ L121 \/ L123 \/ L124

Spec == Init /\ [][Next]_vars

\* ================================================================ claims
MainCompleted == pc = "idle" /\ caller = "main" /\ result = "returned"
DirectReturned == pc = "idle" /\ caller = "direct" /\ result = "returned"
NoDup(s) == \A i, j \in 1..Len(s) : s[i] = s[j] => i = j
Occurrences(s, x) == Cardinality({i \in 1..Len(s) : s[i] = x})
MeshIds == {i \in DOMAIN objs : objs[i].type = "MESH"}
ArmatureIds == {i \in DOMAIN objs : objs[i].type = "ARMATURE"}
SelectedIds == {i \in DOMAIN objs : objs[i].selected}
BasisData(o) == o.keys[KeyIndex(o, "Basis")].data

\* C1 as stated: after a complete main() the head's shape-key names are
\* exactly the 52 MediaPipe names plus "tongueOut", each once.
C1_NamesAre52PlusTongueOut ==
    MainCompleted =>
        LET names == KeyNames(objs[head])
        IN  /\ SeqRange(names) = SeqRange(MEDIAPIPE_NAMES) \cup SeqRange(EXTRA_BLENDSHAPE_NAMES)
            /\ \A n \in SeqRange(names) : Occurrences(names, n) = 1

\* C1 amended: after a complete main() the head's shape-key names are
\* "Basis", the 51 MediaPipe names other than "_neutral", and "tongueOut",
\* every one present and each exactly once.
C1_NamesAreBasisPlus51PlusTongueOut ==
    MainCompleted =>
        LET names == KeyNames(objs[head])
            want == {"Basis"} \cup (SeqRange(MEDIAPIPE_NAMES) \ {"_neutral"})
                    \cup SeqRange(EXTRA_BLENDSHAPE_NAMES)
        IN  /\ SeqRange(names) = want
            /\ \A n \in want : Occurrences(names, n) = 1

C1_Witness ==
    /\ MainCompleted
    /\ HasKey(objs[head], "tongueOut")
    /\ HasKey(objs[head], "Basis")
    /\ ~HasKey(objs[head], "_neutral")

\* C2: after a complete main(), origin re-centring included, every shape
\* key of the head holds, vertex by vertex, the coordinates of Basis.
C2_KeysEqualBasis ==
    MainCompleted =>
        LET o == objs[head]
        IN  \A k \in 1..Len(o.keys) :
                /\ Len(o.keys[k].data) = Len(o.verts)
                /\ \A i \in 1..Len(o.verts) : o.keys[k].data[i] = BasisData(o)[i]

\* the re-centring has moved the data: the head was built off the origin
C2_Witness ==
    /\ MainCompleted
    /\ cursor # Origin
    /\ objs[head].location = cursor
    /\ Len(objs[head].keys) > 1
    /\ BasisData(objs[head])[1] = <<HeadScaleX, 0, 0>>

\* C3: consecutive complete runs of main(), and consecutive complete calls
\* of add_blendshape_keys on one mesh, leave no shape-key name twice, and
\* the set of names is the one the first run / call left.
C3_NoDuplicateKeysOnRerun ==
    /\ MainCompleted =>
          /\ NoDup(KeyNames(objs[head]))
          /\ SeqRange(KeyNames(objs[head])) = SeqRange(firstNames)
    /\ (DirectReturned /\ prev = [fn |-> "direct", arg |-> mesh_object, result |-> "returned"]) =>
          /\ NoDup(KeyNames(objs[mesh_object]))
          /\ KeyNames(objs[mesh_object]) = [i \in 1..Len(entryKeys) |-> entryKeys[i].name]

\* a second main() after a complete one, or a second call on the same mesh
C3_Witness ==
    \/ /\ MainCompleted
       /\ prev = [fn |-> "main", arg |-> head, result |-> "returned"]
       /\ Len(firstNames) > 1
    \/ /\ DirectReturned
       /\ prev = [fn |-> "direct", arg |-> mesh_object, result |-> "returned"]
       /\ Len(objs[mesh_object].keys) > 1

\* C4 as stated: after a complete main(), whatever the scene held before,
\* it holds exactly one mesh object and exactly one armature object, the
\* mesh being the child of the armature.
C4_OneMeshOneArmature ==
    MainCompleted =>
        /\ MeshIds = {head}
        /\ ArmatureIds = {armature}
        /\ objs[head].parent = armature

\* C5: after a complete main() the armature has exactly one bone, "root",
\* from (0,0,0) to (0,0,0.2), the armature itself at the world origin; it
\* has this shape from the end of the bone edit on, through the parenting
\* and the origin re-centring.
C5_RootBoneAtOrigin ==
    (caller = "main" /\ (MainCompleted \/ pc \in {"L81", "L84", "L85", "L120", "L121", "L123", "L124"})) =>
        /\ armature \in DOMAIN objs
        /\ objs[armature].bones = <<Bone("root", <<0, 0, 0>>, <<0, 0, 200>>)>>
        /\ objs[armature].edit_bones = <<>>
        /\ objs[armature].location = <<0, 0, 0>>
        /\ objs[armature].parent = 0

C5_Witness ==
    /\ MainCompleted
    /\ objs[head].parent = armature
    /\ objs[head].location # Origin
    /\ Len(objs[armature].bones) = 1

\* C6: add_blendshape_keys on an object that is not a mesh returns at once:
\* no exception, and objects, selection, active object and mode unchanged.
C6_NonMeshReturnsUnchanged ==
    [][(pc = "L94" /\ objs[mesh_object].type # "MESH") =>
          /\ pc' = "idle"
          /\ result' = "returned"
          /\ exc' = NoExc
          /\ objs' = objs /\ active' = active /\ mode' = mode]_vars

C6_Witness ==
    /\ DirectReturned
    /\ objs[mesh_object].type # "MESH"
    /\ SelectedIds = {}

\* C7: an exception raised by a host call of main() ends main() there: the
\* raising step changes nothing in the scene (what earlier steps did stays),
\* nothing is printed, and no further step of the script runs (the next
\* step is a new call).
C7_ExceptionAbortsMain ==
    [][/\ (caller = "main" /\ exc = NoExc /\ exc' # NoExc) =>
            /\ result' = "raised"
            /\ pc' = "idle"
            /\ exc'.at = pc
            /\ objs' = objs /\ active' = active /\ mode' = mode
            /\ stdout' = <<>>
       /\ (caller = "main" /\ exc # NoExc) =>
            /\ pc = "idle"
            /\ runs' = runs + 1
            /\ objs' = objs /\ active' = active /\ mode' = mode]_vars

\* main() raised at the origin re-centring: head, keys and armature remain
C7_Witness ==
    /\ caller = "main" /\ result = "raised" /\ exc.at = "L123"
    /\ head \in DOMAIN objs /\ armature \in DOMAIN objs
    /\ Len(objs[head].keys) = 53
    /\ objs[head].parent = armature
    /\ stdout = <<>>

\* C8: after a complete main() the head carries 53 key blocks: "Basis"
\* first, 51 with MediaPipe names, and "tongueOut"; "_neutral" is not one of
\* them, and the diagnostic line's count (51) is the number of MediaPipe keys.
C8_BasisPlus51PlusTongueOut ==
    MainCompleted =>
        LET names == KeyNames(objs[head])
        IN  /\ Len(names) = 53
            /\ names[1] = "Basis"
            /\ Cardinality({i \in 1..Len(names) : names[i] \in SeqRange(MEDIAPIPE_NAMES)}) = 51
            /\ PrintedMediaPipeCount = Cardinality({i \in 1..Len(names) : names[i] \in SeqRange(MEDIAPIPE_NAMES)})
            /\ Occurrences(names, "tongueOut") = 1
            /\ Occurrences(names, "_neutral") = 0
            /\ Len(names) - 1 = PrintedMediaPipeCount + Len(EXTRA_BLENDSHAPE_NAMES)
            /\ stdout = Diagnostics

C8_Witness ==
    /\ MainCompleted
    /\ Len(objs[head].keys) = 53
    /\ objs[head].keys[53].name = "tongueOut"

\* C9: add_blendshape_keys leaves every shape key that existed at the call
\* as it was, name and data, and adds, after them, exactly the listed names
\* that were missing (after "Basis" when there was no key at all), each a
\* copy of the basis; a key that differed from the basis still differs.
C9_ExistingKeysUntouched ==
    (caller = "direct" /\ mesh_object \in DOMAIN objs) =>
        LET o == objs[mesh_object]
            n0 == Len(entryKeys)
            had(n) == \E i \in 1..n0 : entryKeys[i].name = n
            missing(n) == ~had(n)
        IN  /\ Len(o.keys) >= n0
            /\ \A i \in 1..n0 : o.keys[i] = entryKeys[i]
            /\ (DirectReturned /\ o.type = "MESH") =>
                  /\ SubSeq(KeyNames(o), n0 + 1, Len(o.keys)) =
                        (IF n0 = 0 THEN <<"Basis">> ELSE <<>>) \o SelectSeq(AllNames, missing)
                  /\ \A k \in (n0 + 1)..Len(o.keys) : o.keys[k].data = BasisData(o)

\* a key sculpted before the call differs from the basis after it, and the
\* missing names were added
C9_Witness ==
    /\ DirectReturned
    /\ mesh_object \in DOMAIN objs
    /\ HasKey(objs[mesh_object], "jawOpen")
    /\ objs[mesh_object].keys[KeyIndex(objs[mesh_object], "jawOpen")].data # BasisData(objs[mesh_object])
    /\ HasKey(objs[mesh_object], "tongueOut")
    /\ Len(objs[mesh_object].keys) > Len(entryKeys)

\* C10: main() started in object mode reaches every host operator in a
\* context that satisfies the operator's precondition, so no operator
\* raises on its context; the session is in object mode when
\* create_watchdog_head_mesh, add_root_bone and main return, and at the end
\* the head is the only selected object and the active one.
C10_ContextsSatisfied ==
    (caller = "main" /\ entryMode = "OBJECT") =>
        /\ pc \in {"L56", "L58", "L68", "L73", "L78"} => active \in DOMAIN objs
        /\ pc = "L56" => active = head /\ objs[head].type = "MESH"
        /\ pc = "L57" => mode = "EDIT" /\ active = head /\ objs[head].type = "MESH"
        /\ pc = "L73" => active = armature /\ objs[armature].type = "ARMATURE"
        /\ pc = "L74" => mode = "EDIT" /\ active = armature /\ objs[armature].type = "ARMATURE"
        /\ pc \in {"L39", "L40", "L96", "L69", "L84", "L85", "L120", "L123"} => mode = "OBJECT"
        /\ pc = "L102" => mode = "OBJECT" /\ active = head
        /\ pc = "L84" => active = armature /\ objs[head].selected /\ SelectedIds = {head, armature}
        /\ pc = "L123" => SelectedIds = {head}
        /\ pc \in {"L94", "L120"} => mode = "OBJECT"
        /\ result = "raised" => exc.kind = "HostFault"
        /\ MainCompleted => mode = "OBJECT" /\ SelectedIds = {head} /\ active = head

C10_Witness ==
    /\ MainCompleted
    /\ entryMode = "OBJECT"
    /\ prev.fn = "none"
    /\ SelectedIds = {head}
====
